---- MODULE Spec2Model ----
(***************************************************************************)
(* MassMailer: the Streamlit front end (app.py) and the command-line       *)
(* sender (send_kra_emails.py).  Both read a spreadsheet of associates,    *)
(* render an HTML mail per row, and send it with a bounded retry loop.     *)
(*                                                                         *)
(* Strings are sequences of one-character strings, so that str(), strip(), *)
(* split() and the substring test `in` are computed, not assumed.  A       *)
(* spreadsheet cell is either a string or the NaN that pandas produces for *)
(* an empty cell.  Row indices are 1-based here (pandas: 0-based).         *)
(***************************************************************************)
EXTENDS Integers, Sequences, FiniteSets, TLC

VARIABLES
    prog,          \* "app" (app.py) or "kra" (send_kra_emails.py)
    env,           \* the process environment: MAIL_SERVER, MAIL_PORT, MAIL_USERNAME
    template,      \* template text (text area of app.py / template file of the CLI)
    df,            \* the spreadsheet: a sequence of rows
    files,         \* names of the files present in the attachment directory
    pc,            \* position of the run
    button,        \* app.py: the button that was clicked
    dry_run,       \* the dry_run argument of send_bulk_emails
    idx,           \* row the loop of send_bulk_emails is at
    attempt,       \* loop variable of send_email_with_retry
    error_map,     \* result of validate_excel_data
    checked,       \* rows validate_excel_data has examined in this run
    logs,          \* result / log entries, in the order they are written
    attempts,      \* per row: number of times the mail transport was invoked
    delivered,     \* per row: number of times the server accepted the message
    bare,          \* rows whose message was built without the attachment
    slept,         \* per row: total time.sleep() in milliseconds
    outcome,       \* how the run ended
    started,       \* the row loop of send_bulk_emails has been entered
    current_year,  \* datetime.now().year
    year_range,    \* last result of get_year_range()
    html_body      \* last rendered body

vars == <<prog, env, template, df, files, pc, button, dry_run, idx, attempt,
          error_map, checked, logs, attempts, delivered, bare, slept, outcome,
          started, current_year, year_range, html_body>>

-----------------------------------------------------------------------------
(* Bounds *)

MaxRows == 3
MinYear == 1970
MaxYear == 9999

-----------------------------------------------------------------------------
(* Python string primitives *)

\* values of environment variables and of config entries
None == [kind |-> "none"]
StrVal(s) == [kind |-> "str", v |-> s]
IntVal(n) == [kind |-> "int", v |-> n]

IsSpace(c) == c = " "

RECURSIVE LStrip(_)
LStrip(s) == IF s # <<>> /\ IsSpace(Head(s)) THEN LStrip(Tail(s)) ELSE s

RECURSIVE RStrip(_)
RStrip(s) ==
    IF s # <<>> /\ IsSpace(s[Len(s)]) THEN RStrip(SubSeq(s, 1, Len(s) - 1)) ELSE s

\* str.strip()
Strip(s) == RStrip(LStrip(s))

\* sub in s
Contains(sub, s) ==
    \E k \in 0..(Len(s) - Len(sub)) : SubSeq(s, k + 1, k + Len(sub)) = sub

\* len(s.split()): a token starts at every non-space preceded by a space or by the start
NumTokens(s) ==
    Cardinality({i \in 1..Len(s) : ~IsSpace(s[i]) /\ (i = 1 \/ IsSpace(s[i - 1]))})

Digit(d) == CASE d = 0 -> "0" [] d = 1 -> "1" [] d = 2 -> "2" [] d = 3 -> "3"
              [] d = 4 -> "4" [] d = 5 -> "5" [] d = 6 -> "6" [] d = 7 -> "7"
              [] d = 8 -> "8" [] d = 9 -> "9"

\* str(n) for n >= 0
RECURSIVE IntToStr(_)
IntToStr(n) == IF n < 10 THEN <<Digit(n)>> ELSE IntToStr(n \div 10) \o <<Digit(n % 10)>>

DigitVal(c) == CHOOSE d \in 0..9 : Digit(d) = c

\* int(s) for a string of decimal digits
RECURSIVE StrToInt(_)
StrToInt(s) ==
    IF s = <<>> THEN 0 ELSE 10 * StrToInt(SubSeq(s, 1, Len(s) - 1)) + DigitVal(s[Len(s)])

\* s[-k:]
LastChars(s, k) == IF Len(s) <= k THEN s ELSE SubSeq(s, Len(s) - k + 1, Len(s))

-----------------------------------------------------------------------------
(* Spreadsheet cells and rows *)

NaN == [nan |-> TRUE, s |-> <<>>]
Cell(s) == [nan |-> FALSE, s |-> s]

\* str(cell): a string is itself, the float NaN prints as "nan"
Str(cell) == IF cell.nan THEN <<"n", "a", "n">> ELSE cell.s

Domain == <<"@", "s", "e", "n", "e", "c", "a", "g", "l", "o", "b", "a", "l", ".", "c", "o", "m">>
Marker == <<"N">>
PdfExt == <<".", "p", "d", "f">>

GoodMail == <<"u">> \o Domain
Row(name, id, to, cl, pm) ==
    [AssociateName |-> name, AssociateID |-> id, AssociateEmail |-> to,
     CLEmail |-> cl, PMEmail |-> pm]

-----------------------------------------------------------------------------
(* app.py: validate_excel_data *)

Issue(col, label, value, suggestion) ==
    [col |-> col, msg |-> <<label>> \o value, suggestion |-> suggestion]

\* os.path.exists(os.path.join(dir, f"{name}.pdf"))
KraFileExists(name, fs) == (name \o PdfExt) \in fs

\* lines 66-73: one e-mail field
CheckEmail(col, label, value) ==
    IF value = <<>> \/ ~Contains(Domain, value)
    THEN <<Issue(col, label, value, value)>>
    ELSE <<>>

\* lines 75-76
CheckId(associate_id) ==
    IF ~Contains(Marker, associate_id)
    THEN <<Issue("AssociateID", "Invalid Associate ID", associate_id, associate_id)>>
    ELSE <<>>

\* lines 78-79
CheckName(associate_name) ==
    IF NumTokens(associate_name) < 2
    THEN <<Issue("AssociateName", "AssociateName should be 'Firstname Lastname'",
                 associate_name, associate_name)>>
    ELSE <<>>

\* lines 81-84
CheckFile(associate_name, fs) ==
    IF ~KraFileExists(associate_name, fs)
    THEN <<Issue("KRA File", "Missing KRA file for", associate_name, <<>>)>>
    ELSE <<>>

\* the validator written as an if/elif chain: only the first violated rule is reported
RowIssues_ElifChain(row, fs) ==
    LET associate_name == Strip(Str(row.AssociateName))
        all == <<CheckEmail("Associate Email", "Invalid Associate Email",
                            Strip(Str(row.AssociateEmail))),
                 CheckEmail("CL Email", "Invalid CL Email", Strip(Str(row.CLEmail))),
                 CheckEmail("PM Email", "Invalid PM Email", Strip(Str(row.PMEmail))),
                 CheckId(Strip(Str(row.AssociateID))),
                 CheckName(associate_name),
                 CheckFile(associate_name, fs)>>
        hit == {k \in 1..6 : all[k] # <<>>}
    IN  IF hit = {} THEN <<>> ELSE all[CHOOSE k \in hit : \A j \in hit : k <= j]

\* the body of the loop of validate_excel_data: the issues of one row
RowIssues(row, fs) ==
    LET associate_name == Strip(Str(row.AssociateName))
        associate_id   == Strip(Str(row.AssociateID))
        to_email       == Strip(Str(row.AssociateEmail))
        cl_email       == Strip(Str(row.CLEmail))
        pm_email       == Strip(Str(row.PMEmail))
    IN  CheckEmail("Associate Email", "Invalid Associate Email", to_email)
        \o CheckEmail("CL Email", "Invalid CL Email", cl_email)
        \o CheckEmail("PM Email", "Invalid PM Email", pm_email)
        \o CheckId(associate_id)
        \o CheckName(associate_name)
        \o CheckFile(associate_name, fs)

\* error_map: only the rows that have issues
validate_excel_data(d, fs) ==
    [i \in {j \in 1..Len(d) : RowIssues(d[j], fs) # <<>>} |-> RowIssues(d[i], fs)]

Field(row, col) ==
    CASE col = "Associate Email" -> row.AssociateEmail
      [] col = "CL Email"        -> row.CLEmail
      [] col = "PM Email"        -> row.PMEmail
      [] col = "AssociateID"     -> row.AssociateID
      [] col = "AssociateName"   -> row.AssociateName

\* "Dry Run" handler, lines 274-279: every text input comes back with its
\* default (the suggestion) and a non-blank one is written into the frame;
\* "KRA File" is not a column of the frame and has an empty suggestion
WriteBack(d, em) ==
    [i \in 1..Len(d) |->
        IF i \notin DOMAIN em THEN d[i]
        ELSE LET flagged(col) ==
                     \E k \in 1..Len(em[i]) :
                         em[i][k].col = col /\ Strip(em[i][k].suggestion) # <<>>
                 sugg(col) ==
                     em[i][CHOOSE k \in 1..Len(em[i]) : em[i][k].col = col].suggestion
                 new(col) == IF flagged(col) THEN Cell(Strip(sugg(col)))
                             ELSE Field(d[i], col)
             IN  Row(new("AssociateName"), new("AssociateID"), new("Associate Email"),
                     new("CL Email"), new("PM Email"))]

-----------------------------------------------------------------------------
(* Templates and rendering *)

Text(s) == [kind |-> "text", s |-> s]
Var(name) == [kind |-> "var", s |-> <<name>>]
BadTag == [kind |-> "bad", s |-> <<"{% endfor %}">>]

\* template_map["Default Template"]: one placeholder, the year range is literal text
DefaultTemplate ==
    <<Text(<<"Dear ">>), Var("associate"),
      Text(<<", ... KRAs applicable to you for the year 2025-26. ... All the best!!">>)>>
YearTemplate ==
    <<Text(<<"Dear ">>), Var("name"), Text(<<" for the year ">>), Var("year_range")>>
BlankTemplate == <<Text(<<" ">>)>>
BrokenTemplate == <<Text(<<"Dear ">>), BadTag>>

\* not template_input.strip()
TemplateBlank(t) == \A i \in 1..Len(t) : t[i].kind = "text" /\ Strip(t[i].s) = <<>>

\* jinja2 raises TemplateSyntaxError while compiling
RenderRaises(t) == \E i \in 1..Len(t) : t[i].kind = "bad"

\* jinja2 Template(t).render(**ctx): a defined name is replaced by its value,
\* an undefined one by the empty string
Render(t, ctx) ==
    [i \in 1..Len(t) |->
        IF t[i].kind = "var"
        THEN Text(IF t[i].s[1] \in DOMAIN ctx THEN ctx[t[i].s[1]] ELSE <<>>)
        ELSE t[i]]

\* the year range built from the current year twice: "2025-25"
get_year_range_SameYear(year) ==
    LET next_year_short == LastChars(IntToStr(year), 2)
    IN  IntToStr(year) \o <<"-">> \o next_year_short

\* get_year_range, given datetime.now().year
get_year_range(year) ==
    LET next_year_short == LastChars(IntToStr(year + 1), 2)
    IN  IntToStr(year) \o <<"-">> \o next_year_short

-----------------------------------------------------------------------------
(* Inputs *)

NameAB == <<"A", " ", "B">>
NameCD == <<"C", " ", "D">>
NameEF == <<"E", " ", "F">>

\* the attachment directory holds the documents of two of the three associates
Files == {NameAB \o PdfExt, NameEF \o PdfExt}

RowOk     == Row(Cell(NameAB), Cell(<<"N", "1">>), Cell(GoodMail), Cell(GoodMail), Cell(GoodMail))
RowBadCC  == Row(Cell(NameEF), Cell(<<"N", "2">>), Cell(GoodMail), Cell(<<"c", "l">>), Cell(GoodMail))
RowNoFile == Row(Cell(NameCD), Cell(<<"N", "3">>), Cell(GoodMail), Cell(GoodMail), Cell(GoodMail))
RowNoName == Row(NaN, Cell(<<"N", "4">>), Cell(GoodMail), Cell(GoodMail), Cell(GoodMail))
RowPadded == Row(Cell(<<" ">> \o NameAB), Cell(<<"N", "5">>), Cell(GoodMail), Cell(GoodMail),
                 Cell(GoodMail))

RowPool == {RowOk, RowBadCC, RowNoFile, RowNoName, RowPadded}

Frames == UNION {[1..n -> RowPool] : n \in 1..MaxRows}

Present == {None, StrVal(<<"x">>)}
Envs == [MAIL_SERVER : Present, MAIL_PORT : {None, StrVal(<<"5", "8", "7">>)},
         MAIL_USERNAME : Present]

TemplatePool == {DefaultTemplate, BlankTemplate, BrokenTemplate}

ThisYear == 2025
FullEnv == [MAIL_SERVER |-> StrVal(<<"x">>), MAIL_PORT |-> StrVal(<<"5", "8", "7">>),
            MAIL_USERNAME |-> StrVal(<<"x">>)]

\* inputs of the validator on its own: every combination of cell values
EmailPool == {Cell(GoodMail), Cell(<<"u">>), Cell(<<>>), Cell(<<" ">>), NaN,
              Cell(<<" ">> \o GoodMail \o <<" ">>)}
IdPool == {Cell(<<"N", "1">>), Cell(<<"1">>), Cell(<<"n", "1">>), NaN}
NamePool == {Cell(NameAB), Cell(<<"A">>), Cell(<<>>), Cell(<<" ", "A", " ">>),
             Cell(<<" ">> \o NameAB \o <<" ">>), Cell(<<"A", " ", " ", "B">>), NaN}
ValRows == {Row(n, i, t, c, m) : n \in NamePool, i \in IdPool, t \in EmailPool,
                                 c \in EmailPool, m \in EmailPool}
FilePool == {{}, Files,
             {<<"A">> \o PdfExt, PdfExt, <<"n", "a", "n">> \o PdfExt,
              <<"A", " ", " ", "B">> \o PdfExt}}

\* inputs of the renderer on its own
JaneDoe == <<"J", "a", "n", "e", " ", "D", "o", "e">>
RenderTemplates == {DefaultTemplate, YearTemplate}

-----------------------------------------------------------------------------
(* Program constants *)

app_retries == 1
app_delay_ms == 500
kra_retries == 3
kra_delay_ms == 3000
DefaultPort == 25

-----------------------------------------------------------------------------
(* State after start-up *)

Start(p, e, t, d, fs, y, at) ==
    /\ prog = p /\ env = e /\ template = t /\ df = d /\ files = fs
    /\ current_year = y
    /\ pc = at
    /\ button = "none"
    /\ dry_run = FALSE
    /\ idx = 0
    /\ attempt = 0
    /\ error_map = <<>>
    /\ checked = {}
    /\ logs = <<>>
    /\ attempts = [i \in 1..Len(d) |-> 0]
    /\ delivered = [i \in 1..Len(d) |-> 0]
    /\ bare = {}
    /\ slept = [i \in 1..Len(d) |-> 0]
    /\ outcome = "none"
    /\ started = FALSE
    /\ year_range = <<>>
    /\ html_body = <<>>

Init ==
    \E p \in {"app", "kra"}, e \in Envs, t \in TemplatePool, d \in Frames :
        Start(p, e, t, d, Files, ThisYear, "idle")

-----------------------------------------------------------------------------
(* app.py *)

\* config = {...}, lines 26-30
config ==
    [MAIL_SERVER   |-> env.MAIL_SERVER,
     MAIL_PORT     |-> IF env.MAIL_PORT = None THEN IntVal(DefaultPort)
                       ELSE IntVal(StrToInt(env.MAIL_PORT.v)),
     MAIL_USERNAME |-> env.MAIL_USERNAME]

\* not val
Falsy(x) ==
    \/ x.kind = "none"
    \/ x.kind = "int" /\ x.v = 0
    \/ x.kind = "str" /\ x.v = <<>>

Log(tag, i) == [tag |-> tag, row |-> i]

Abort(how) ==
    /\ pc' = "done"
    /\ outcome' = how

\* lines 264-283
ClickDryRun ==
    /\ pc = "idle" /\ prog = "app"
    /\ button' = "Dry Run"
    /\ IF TemplateBlank(template)
       THEN /\ Abort("template_error")
            /\ UNCHANGED <<df, error_map, checked, dry_run>>
       ELSE LET errors == validate_excel_data(df, files)
            IN  /\ error_map' = errors
                /\ checked' = 1..Len(df)
                /\ IF DOMAIN errors # {}
                   THEN /\ df' = WriteBack(df, errors)
                        /\ Abort("validation_errors")
                        /\ UNCHANGED dry_run
                   ELSE /\ pc' = "bulk"
                        /\ dry_run' = TRUE
                        /\ UNCHANGED <<df, outcome>>
    /\ UNCHANGED <<prog, env, template, files, idx, attempt, logs, attempts, delivered,
                   bare, slept, started, current_year, year_range, html_body>>

\* lines 285-291
ClickSend ==
    /\ pc = "idle" /\ prog = "app"
    /\ button' = "Send Emails"
    /\ IF TemplateBlank(template)
       THEN /\ Abort("template_error")
            /\ UNCHANGED dry_run
       ELSE /\ pc' = "bulk"
            /\ dry_run' = FALSE
            /\ UNCHANGED outcome
    /\ UNCHANGED <<prog, env, template, df, files, idx, attempt, error_map, checked, logs,
                   attempts, delivered, bare, slept, started, current_year, year_range,
                   html_body>>

\* send_bulk_emails, lines 130-140
BulkStart ==
    /\ pc = "bulk" /\ prog = "app"
    /\ IF \E key \in DOMAIN config : Falsy(config[key])
       THEN /\ Abort("ValueError")
            /\ UNCHANGED <<idx, started>>
       ELSE /\ pc' = "loop"
            /\ idx' = 1
            /\ started' = TRUE
            /\ UNCHANGED outcome
    /\ UNCHANGED <<prog, env, template, df, files, button, dry_run, attempt, error_map,
                   checked, logs, attempts, delivered, bare, slept, current_year,
                   year_range, html_body>>

\* send_bulk_emails, one iteration up to the call of send_email_with_retry, lines 142-156
AppRow ==
    /\ pc = "loop" /\ prog = "app" /\ idx <= Len(df)
    /\ LET row == df[idx]
           associate_name == Strip(row.AssociateName.s)
       IN  IF row.AssociateName.nan \/ row.AssociateEmail.nan \/ row.CLEmail.nan
              \/ row.PMEmail.nan
           THEN \* float has no attribute strip
                /\ Abort("AttributeError")
                /\ UNCHANGED <<idx, attempt, logs, year_range, html_body>>
           ELSE IF RenderRaises(template)
           THEN /\ Abort("TemplateSyntaxError")
                /\ UNCHANGED <<idx, attempt, logs, year_range, html_body>>
           ELSE /\ year_range' = get_year_range(current_year)
                /\ html_body' = Render(template, [associate |-> associate_name,
                                                  year_range |-> year_range'])
                /\ IF dry_run
                   THEN /\ logs' = Append(logs, Log("DRY-RUN", idx))
                        /\ idx' = idx + 1
                        /\ UNCHANGED <<pc, attempt>>
                   ELSE /\ pc' = "retry"
                        /\ attempt' = 1
                        /\ UNCHANGED <<idx, logs>>
                /\ UNCHANGED outcome
    /\ UNCHANGED <<prog, env, template, df, files, button, dry_run, error_map, checked,
                   attempts, delivered, bare, slept, started, current_year>>

\* send_bulk_emails, line 175
AppReturn ==
    /\ pc = "loop" /\ prog = "app" /\ idx > Len(df)
    /\ Abort("ok")
    /\ UNCHANGED <<prog, env, template, df, files, button, dry_run, idx, attempt,
                   error_map, checked, logs, attempts, delivered, bare, slept, started,
                   current_year, year_range, html_body>>

TransportResults == {"smtp_error", "quit_error", "ok"}

\* send_email_with_retry, one pass of the loop, lines 94-124, and on success the
\* caller's lines 167-173
AppAttempt ==
    /\ pc = "retry" /\ prog = "app" /\ attempt <= app_retries + 1
    /\ \E result \in TransportResults :
        LET associate_name == Strip(df[idx].AssociateName.s)
        IN  /\ bare' = IF KraFileExists(associate_name, files) THEN bare ELSE bare \cup {idx}
            /\ attempts' = [attempts EXCEPT ![idx] = @ + 1]
            /\ delivered' = IF result = "smtp_error" THEN delivered
                            ELSE [delivered EXCEPT ![idx] = @ + 1]
            /\ IF result = "ok"
               THEN /\ logs' = Append(logs, Log("SENT", idx))
                    /\ idx' = idx + 1
                    /\ pc' = "loop"
                    /\ UNCHANGED <<attempt, slept>>
               ELSE /\ slept' = [slept EXCEPT ![idx] = @ + app_delay_ms]
                    /\ attempt' = attempt + 1
                    /\ UNCHANGED <<logs, idx, pc>>
    /\ UNCHANGED <<prog, env, template, df, files, button, dry_run, error_map, checked,
                   outcome, started, current_year, year_range, html_body>>

\* send_email_with_retry, line 126, and the caller's lines 170-173
AppGiveUp ==
    /\ pc = "retry" /\ prog = "app" /\ attempt > app_retries + 1
    /\ logs' = Append(logs, Log("FAILED", idx))
    /\ idx' = idx + 1
    /\ pc' = "loop"
    /\ UNCHANGED <<prog, env, template, df, files, button, dry_run, attempt, error_map,
                   checked, attempts, delivered, bare, slept, outcome, started,
                   current_year, year_range, html_body>>

-----------------------------------------------------------------------------
(* send_kra_emails.py *)

\* module level, lines 26-36, then __main__ and send_bulk_emails up to the loop,
\* lines 111-116 and 56-58
KraMain ==
    /\ pc = "idle" /\ prog = "kra"
    /\ \E d \in BOOLEAN :
        IF env.MAIL_PORT = None
        THEN \* int(None)
             /\ Abort("TypeError")
             /\ UNCHANGED <<dry_run, idx, started>>
        ELSE /\ dry_run' = d
             /\ pc' = "loop"
             /\ idx' = 1
             /\ started' = TRUE
             /\ UNCHANGED outcome
    /\ UNCHANGED <<prog, env, template, df, files, button, attempt, error_map, checked,
                   logs, attempts, delivered, bare, slept, current_year, year_range,
                   html_body>>

\* send_bulk_emails, one iteration up to the call of send_email_with_retry,
\* lines 60-90; an exception leaves the loop for the handler of lines 106-108
KraRow ==
    /\ pc = "loop" /\ prog = "kra" /\ idx <= Len(df)
    /\ LET row == df[idx]
           associate_name == row.AssociateName.s
       IN  IF row.AssociateName.nan
           THEN \* float has no attribute replace
                /\ logs' = Append(logs, Log("FATAL", idx))
                /\ Abort("fatal")
                /\ UNCHANGED <<idx, attempt, html_body>>
           ELSE IF ~KraFileExists(associate_name, files)
           THEN /\ logs' = Append(logs, Log("MISSING", idx))
                /\ idx' = idx + 1
                /\ UNCHANGED <<pc, outcome, attempt, html_body>>
           ELSE IF RenderRaises(template)
           THEN /\ logs' = Append(logs, Log("FATAL", idx))
                /\ Abort("fatal")
                /\ UNCHANGED <<idx, attempt, html_body>>
           ELSE /\ html_body' = Render(template, [name |-> associate_name])
                /\ IF dry_run
                   THEN /\ logs' = Append(logs, Log("DRY-RUN", idx))
                        /\ idx' = idx + 1
                        /\ UNCHANGED <<pc, attempt>>
                   ELSE /\ pc' = "retry"
                        /\ attempt' = 1
                        /\ UNCHANGED <<idx, logs>>
                /\ UNCHANGED outcome
    /\ UNCHANGED <<prog, env, template, df, files, button, dry_run, error_map, checked,
                   attempts, delivered, bare, slept, started, current_year, year_range>>

\* send_bulk_emails, lines 103-104
KraReturn ==
    /\ pc = "loop" /\ prog = "kra" /\ idx > Len(df)
    /\ Abort("ok")
    /\ UNCHANGED <<prog, env, template, df, files, button, dry_run, idx, attempt,
                   error_map, checked, logs, attempts, delivered, bare, slept, started,
                   current_year, year_range, html_body>>

\* send_email_with_retry, one pass of the loop, lines 45-51, and on success the
\* caller's lines 93-96
KraAttempt ==
    /\ pc = "retry" /\ prog = "kra" /\ attempt <= kra_retries
    /\ \E result \in {"smtp_error", "ok"} :
        \* without MAIL_SERVER the client never connects and every send raises
        /\ result = "ok" => env.MAIL_SERVER # None
        /\ attempts' = [attempts EXCEPT ![idx] = @ + 1]
        /\ IF result = "ok"
           THEN /\ delivered' = [delivered EXCEPT ![idx] = @ + 1]
                /\ logs' = Append(logs, Log("SENT", idx))
                /\ idx' = idx + 1
                /\ pc' = "loop"
                /\ UNCHANGED <<attempt, slept>>
           ELSE /\ slept' = [slept EXCEPT ![idx] = @ + kra_delay_ms]
                /\ attempt' = attempt + 1
                /\ UNCHANGED <<delivered, logs, idx, pc>>
    /\ UNCHANGED <<prog, env, template, df, files, button, dry_run, error_map, checked,
                   bare, outcome, started, current_year, year_range, html_body>>

\* send_email_with_retry, line 52, and the caller's lines 97-100
KraGiveUp ==
    /\ pc = "retry" /\ prog = "kra" /\ attempt > kra_retries
    /\ logs' = Append(logs, Log("FAILED", idx))
    /\ idx' = idx + 1
    /\ pc' = "loop"
    /\ UNCHANGED <<prog, env, template, df, files, button, dry_run, attempt, error_map,
                   checked, attempts, delivered, bare, slept, outcome, started,
                   current_year, year_range, html_body>>

-----------------------------------------------------------------------------

Next ==
    \/ ClickDryRun
    \/ ClickSend
    \/ BulkStart
    \/ AppRow
    \/ AppReturn
    \/ AppAttempt
    \/ AppGiveUp
    \/ KraMain
    \/ KraRow
    \/ KraReturn
    \/ KraAttempt
    \/ KraGiveUp

Spec == Init /\ [][Next]_vars

-----------------------------------------------------------------------------
(* validate_excel_data on its own *)

InitValidate ==
    \E r \in ValRows, fs \in FilePool :
        Start("app", FullEnv, DefaultTemplate, <<r>>, fs, ThisYear, "call_validate")

ValidateCall ==
    /\ pc = "call_validate"
    /\ error_map' = validate_excel_data(df, files)
    /\ checked' = 1..Len(df)
    /\ Abort("ok")
    /\ UNCHANGED <<prog, env, template, df, files, button, dry_run, idx, attempt, logs,
                   attempts, delivered, bare, slept, started, current_year, year_range,
                   html_body>>

NextValidate == ValidateCall

SpecValidate == InitValidate /\ [][NextValidate]_vars

-----------------------------------------------------------------------------
(* get_year_range and the rendering of line 150 on their own *)

InitYear ==
    \E y \in MinYear..MaxYear, t \in RenderTemplates :
        Start("app", FullEnv, t, <<RowOk>>, Files, y, "call_render")

RenderCall ==
    /\ pc = "call_render"
    /\ year_range' = get_year_range(current_year)
    /\ html_body' = Render(template, [associate |-> JaneDoe, year_range |-> year_range'])
    /\ Abort("ok")
    /\ UNCHANGED <<prog, env, template, df, files, button, dry_run, idx, attempt,
                   error_map, checked, logs, attempts, delivered, bare, slept, started,
                   current_year>>

NextYear == RenderCall

SpecYear == InitYear /\ [][NextYear]_vars

-----------------------------------------------------------------------------
(* Properties *)

Rows == 1..Len(df)

\* the row validator reports zero issues for row i
Valid(i) == RowIssues(df[i], files) = <<>>

\* the attachment each program looks for: app.py strips the name, the CLI does not
AttachmentPresent(i) ==
    IF prog = "app" THEN KraFileExists(Strip(Str(df[i].AssociateName)), files)
    ELSE KraFileExists(Str(df[i].AssociateName), files)

HasLog(tag, i) == \E k \in 1..Len(logs) : logs[k] = Log(tag, i)
CountLog(tag, i) == Cardinality({k \in 1..Len(logs) : logs[k] = Log(tag, i)})

DryRunMode == button = "Dry Run" \/ (prog = "kra" /\ started /\ dry_run)
LiveMode == button = "Send Emails" \/ (prog = "kra" /\ started /\ ~dry_run)

\* C1: the mail transport is invoked for a row only if the row validator
\* reports zero issues for that row.
C1_DispatchOnlyIfValid ==
    \A i \in Rows : attempts[i] > 0 => Valid(i)

\* C2: a row whose attachment file is absent gets no send attempt in live mode.
C2_NoAttemptWithoutAttachment ==
    \A i \in Rows : (LiveMode /\ ~AttachmentPresent(i)) => attempts[i] = 0

\* the rows a dry run should preview: in app.py those the validator accepts, in
\* the CLI those that pass its only check, the presence of the attachment
PreviewDue(i) == IF prog = "app" THEN Valid(i) ELSE AttachmentPresent(i)

Previews == SelectSeq(logs, LAMBDA e : e.tag = "DRY-RUN")

\* C3: a dry run never invokes the transport, and once it has finished there is
\* exactly one preview entry per valid row, in the order of the input rows
\* (stated for a complete configuration and the default template).
C3_DryRunPreviews ==
    (DryRunMode /\ template = DefaultTemplate /\ env = FullEnv) =>
        /\ \A i \in Rows : attempts[i] = 0
        /\ (pc = "done" /\ outcome \in {"ok", "validation_errors"}) =>
              /\ \A i \in Rows : PreviewDue(i) <=> \E k \in 1..Len(Previews) : Previews[k].row = i
              /\ \A k \in 1..(Len(Previews) - 1) : Previews[k].row < Previews[k + 1].row

Retries == IF prog = "app" THEN app_retries ELSE kra_retries
Delay == IF prog = "app" THEN app_delay_ms ELSE kra_delay_ms

\* C4: a row recorded as [FAILED] had exactly retries+1 send attempts, with a
\* sleep of the configured delay between consecutive attempts.
C4_RetriesPlusOneAttempts ==
    \A i \in Rows :
        HasLog("FAILED", i) =>
            /\ attempts[i] = Retries + 1
            /\ slept[i] >= (attempts[i] - 1) * Delay

\* C5: once the batch has started, an error in a row never keeps the rows after
\* it from being processed: the run ends only after the last row.
C5_BatchNeverAborted ==
    (started /\ pc = "done") => idx > Len(df)

IssueCols(i) ==
    IF i \in DOMAIN error_map THEN {error_map[i][k].col : k \in 1..Len(error_map[i])}
    ELSE {}

MixedBatch == <<RowOk, RowBadCC, RowNoFile>>

\* C6: the "Dry Run" action on the 3-row sheet (row 1 valid, row 2 with a CC
\* address lacking the domain, row 3 without its attachment) reports row 1 as
\* previewed and rows 2 and 3 as blocked with their specific issues.
C6_MixedBatchDryRun ==
    (/\ prog = "app" /\ button = "Dry Run" /\ pc = "done"
     /\ df = MixedBatch /\ template = DefaultTemplate /\ env = FullEnv)
    => /\ CountLog("DRY-RUN", 1) = 1
       /\ IssueCols(1) = {}
       /\ IssueCols(2) = {"CL Email"}
       /\ IssueCols(3) = {"KRA File"}

Cols == {"Associate Email", "CL Email", "PM Email", "AssociateID", "AssociateName", "KRA File"}

\* the rule of each field, as the validator's contract states it
EmailRuleViolated(cell) ==
    LET s == Strip(Str(cell)) IN s = <<>> \/ ~Contains(Domain, s)

RuleViolated(col, row, fs) ==
    CASE col = "Associate Email" -> EmailRuleViolated(row.AssociateEmail)
      [] col = "CL Email"        -> EmailRuleViolated(row.CLEmail)
      [] col = "PM Email"        -> EmailRuleViolated(row.PMEmail)
      [] col = "AssociateID"     -> ~Contains(Marker, Strip(Str(row.AssociateID)))
      [] col = "AssociateName"   -> NumTokens(Strip(Str(row.AssociateName))) < 2
      [] col = "KRA File"        -> (Strip(Str(row.AssociateName)) \o PdfExt) \notin fs

IssuesOf(i) == IF i \in DOMAIN error_map THEN error_map[i] ELSE <<>>

\* C7: once validate_excel_data has run, the issue list of every row holds an
\* issue for a field if and only if that field's rule is violated, and at most
\* one issue per field: no rule hides or triggers another.
C7_IssuesExactlyViolatedRules ==
    (pc = "done" /\ checked = Rows) =>
        \A i \in Rows : \A col \in Cols :
            /\ (col \in IssueCols(i)) <=> RuleViolated(col, df[i], files)
            /\ Cardinality({k \in 1..Len(IssuesOf(i)) : IssuesOf(i)[k].col = col}) <= 1

\* a row with several violated rules and a satisfied one has been validated
C7_Witness ==
    /\ pc = "done" /\ checked = Rows
    /\ IssueCols(1) = {"CL Email", "AssociateName", "KRA File"}
    /\ ~EmailRuleViolated(df[1].AssociateEmail)

MissingConfig == \E key \in DOMAIN env : env[key] = None

\* C8: with a required setting absent the run aborts with an error and no row
\* is validated, rendered, logged or sent.
C8_MissingConfigIsFatal ==
    MissingConfig =>
        /\ checked = {}
        /\ html_body = <<>>
        /\ logs = <<>>
        /\ \A i \in Rows : attempts[i] = 0
        /\ pc = "done" => outcome \in {"ValueError", "TypeError", "template_error"}

Pad2(n) == <<Digit(n \div 10), Digit(n % 10)>>

ExpectedYearRange(y) == IntToStr(y) \o <<"-">> \o Pad2((y + 1) % 100)

Unresolved(html) == {k \in 1..Len(html) : html[k].kind # "text"}

\* C9: the year range is the decimal year, a hyphen and (year+1) mod 100 padded
\* to two digits, and the default template rendered with it keeps no placeholder.
C9_YearRange ==
    year_range # <<>> =>
        /\ year_range = ExpectedYearRange(current_year)
        /\ template = DefaultTemplate => (html_body # <<>> /\ Unresolved(html_body) = {})

\* the century boundary: 2099 gives "2099-00", rendered into the default template
C9_Witness ==
    /\ pc = "done"
    /\ current_year = 2099
    /\ year_range = <<"2", "0", "9", "9", "-", "0", "0">>
    /\ template = DefaultTemplate
    /\ html_body[2] = Text(JaneDoe)

Dispatched == {"dry-run-logged", "sent", "failed"}
Terminal == Dispatched \cup {"rejected"}

\* the state of row i as the run's records show it
Status(i) ==
    CASE HasLog("SENT", i)    -> "sent"
      [] HasLog("FAILED", i)  -> "failed"
      [] HasLog("DRY-RUN", i) -> "dry-run-logged"
      [] i \in DOMAIN error_map \/ HasLog("MISSING", i) -> "rejected"
      [] i \in checked \/ (prog = "kra" /\ pc = "retry" /\ idx = i) -> "validated"
      [] OTHER -> "pending"

\* row i passed the check its program applies before dispatch
Passed(i) ==
    IF prog = "app" THEN i \in checked /\ i \notin DOMAIN error_map
    ELSE AttachmentPresent(i)

Results(i) == CountLog("SENT", i) + CountLog("FAILED", i) + CountLog("DRY-RUN", i)

\* C10: a row leaves pending only for validated or rejected, reaches a dispatch
\* state only as a validated row, never leaves a terminal state, and when the
\* batch completes every row is terminal with exactly one result entry for each
\* dispatched row and none for a rejected one (stated for a complete
\* configuration and the default template).
C10_RowStateMachine ==
    [][(template = DefaultTemplate /\ env = FullEnv) => \A i \in Rows :
          /\ Status(i) \in Terminal => Status(i)' = Status(i)
          /\ (Status(i) = "validated" /\ Status(i)' # "validated") => Status(i)' \in Dispatched
          /\ Status(i)' \in Dispatched => Passed(i)'
          /\ (pc' = "done" /\ outcome' \in {"ok", "validation_errors"}) =>
                /\ Status(i)' \in Terminal
                /\ Results(i)' = (IF Status(i)' \in Dispatched THEN 1 ELSE 0)]_vars

\* C11: in live mode the server accepts each row's message at most once per
\* batch (no attempt follows an attempt whose sendmail succeeded, even when the
\* quit after it raises), and a row whose message was delivered is never
\* recorded as [FAILED].
C11_DeliveredAtMostOnce ==
    \A i \in Rows :
        /\ delivered[i] <= 1
        /\ delivered[i] > 0 => ~HasLog("FAILED", i)

====
